---- MODULE Spec2Model ----
(***************************************************************************)
(* Bouncing ball inside a growing regular polygon, with nested             *)
(* mini-simulations (polygon.js, ball.js, app.js).                         *)
(*                                                                         *)
(* Numbers.  The program computes in IEEE doubles.  The model computes in  *)
(* fixed point on integers:                                                *)
(*   lengths      in 1/10 px          (Unit  = 10)                         *)
(*   velocities   in 1/10 px per s                                         *)
(*   time steps   in ms               (Milli = 1000)                       *)
(*   cos/sin and unit normals scaled by Trig = 10000                       *)
(* Every product is rounded to the nearest integer (RoundDiv).  The one    *)
(* non-finite value the code can produce from finite inputs, the NaN of    *)
(* 0/0 in closestPointOnSegment, is carried explicitly (field nan).        *)
(***************************************************************************)
EXTENDS Integers, Sequences, FiniteSets, TLC

VARIABLES
  worldPolygon,    \* app.js `worldPolygon`: a Polygon
  ball,            \* app.js `ball`: a BallSim
  maxNestedDepth,  \* app.js `maxNestedDepth`
  lastTime,        \* app.js `lastTime`: "null" or "set"
  ticks,           \* loop() calls since the body was constructed
  clicks,          \* pointerdown events since the body was constructed
  obs,             \* what the last handler did: its name and its locals
  call             \* pure-function harness: the arguments and the result

vars == <<worldPolygon, ball, maxNestedDepth, lastTime, ticks, clicks, obs, call>>

(***************************************************************************)
(* Fixed-point arithmetic                                                  *)
(***************************************************************************)
Unit == 10
Milli == 1000
Trig == 10000

\* a/b rounded to the nearest integer (b > 0); \div floors
RoundDiv(a, b) == (2 * a + b) \div (2 * b)

Max(a, b) == IF a >= b THEN a ELSE b
Min(a, b) == IF a <= b THEN a ELSE b
Abs(a) == IF a < 0 THEN -a ELSE a

\* Math.floor of a number given in 1/Unit
Floor(n) == n \div Unit

RECURSIVE SqrtSearch(_, _, _)
SqrtSearch(n, lo, hi) ==
  IF lo >= hi THEN lo
  ELSE LET mid == (lo + hi + 1) \div 2
       IN IF mid * mid <= n THEN SqrtSearch(n, mid, hi)
                            ELSE SqrtSearch(n, lo, mid - 1)

\* Math.sqrt, rounded to the nearest integer
Sqrt(n) ==
  LET s == SqrtSearch(n, 0, Min(n, 46340))
  IN IF n - s * s > s THEN s + 1 ELSE s

\* optional values: null is the empty sequence
None == <<>>
Some(v) == <<v>>
Get(o) == o[1]

(***************************************************************************)
(* Math.cos(2*pi*i/n) and Math.sin(2*pi*i/n), times Trig, for 1 <= n <= 16 *)
(* (row n, column i+1).                                                    *)
(***************************************************************************)
CosTab ==
  << <<10000>>,
     <<10000, -10000>>,
     <<10000, -5000, -5000>>,
     <<10000, 0, -10000, 0>>,
     <<10000, 3090, -8090, -8090, 3090>>,
     <<10000, 5000, -5000, -10000, -5000, 5000>>,
     <<10000, 6235, -2225, -9010, -9010, -2225, 6235>>,
     <<10000, 7071, 0, -7071, -10000, -7071, 0, 7071>>,
     <<10000, 7660, 1736, -5000, -9397, -9397, -5000, 1736, 7660>>,
     <<10000, 8090, 3090, -3090, -8090, -10000, -8090, -3090, 3090, 8090>>,
     <<10000, 8413, 4154, -1423, -6549, -9595, -9595, -6549, -1423, 4154, 8413>>,
     <<10000, 8660, 5000, 0, -5000, -8660, -10000, -8660, -5000, 0, 5000, 8660>>,
     <<10000, 8855, 5681, 1205, -3546, -7485, -9709, -9709, -7485, -3546, 1205, 5681, 8855>>,
     <<10000, 9010, 6235, 2225, -2225, -6235, -9010, -10000, -9010, -6235, -2225, 2225, 6235, 9010>>,
     <<10000, 9135, 6691, 3090, -1045, -5000, -8090, -9781, -9781, -8090, -5000, -1045, 3090, 6691, 9135>>,
     <<10000, 9239, 7071, 3827, 0, -3827, -7071, -9239, -10000, -9239, -7071, -3827, 0, 3827, 7071, 9239>> >>

SinTab ==
  << <<0>>,
     <<0, 0>>,
     <<0, 8660, -8660>>,
     <<0, 10000, 0, -10000>>,
     <<0, 9511, 5878, -5878, -9511>>,
     <<0, 8660, 8660, 0, -8660, -8660>>,
     <<0, 7818, 9749, 4339, -4339, -9749, -7818>>,
     <<0, 7071, 10000, 7071, 0, -7071, -10000, -7071>>,
     <<0, 6428, 9848, 8660, 3420, -3420, -8660, -9848, -6428>>,
     <<0, 5878, 9511, 9511, 5878, 0, -5878, -9511, -9511, -5878>>,
     <<0, 5406, 9096, 9898, 7557, 2817, -2817, -7557, -9898, -9096, -5406>>,
     <<0, 5000, 8660, 10000, 8660, 5000, 0, -5000, -8660, -10000, -8660, -5000>>,
     <<0, 4647, 8230, 9927, 9350, 6631, 2393, -2393, -6631, -9350, -9927, -8230, -4647>>,
     <<0, 4339, 7818, 9749, 9749, 7818, 4339, 0, -4339, -7818, -9749, -9749, -7818, -4339>>,
     <<0, 4067, 7431, 9511, 9945, 8660, 5878, 2079, -2079, -5878, -8660, -9945, -9511, -7431, -4067>>,
     <<0, 3827, 7071, 9239, 10000, 9239, 7071, 3827, 0, -3827, -7071, -9239, -10000, -9239, -7071, -3827>> >>

\* Math.cos / Math.sin of rotation + (i/n)*2*pi, times Trig; the rotation is
\* a number of quarter turns (the program uses -pi/2, 0 and +pi/2)
CosAt(rotation, n, i) ==
  CASE rotation = 0  -> CosTab[n][i + 1]
    [] rotation = 1  -> -SinTab[n][i + 1]
    [] rotation = -1 -> SinTab[n][i + 1]

SinAt(rotation, n, i) ==
  CASE rotation = 0  -> SinTab[n][i + 1]
    [] rotation = 1  -> CosTab[n][i + 1]
    [] rotation = -1 -> -CosTab[n][i + 1]

(***************************************************************************)
(* polygon.js: class Polygon                                               *)
(***************************************************************************)
\* the vertex list updateVertices builds: vertices[i+1] is the code's verts[i]
VerticesOf(cx, cy, radius, sides, rotation) ==
  [i \in 1..sides |->
     [x |-> cx + RoundDiv(CosAt(rotation, sides, i - 1) * radius, Trig),
      y |-> cy + RoundDiv(SinAt(rotation, sides, i - 1) * radius, Trig)]]

updateVertices(p) ==
  [p EXCEPT !.vertices = VerticesOf(p.cx, p.cy, p.radius, p.sides, p.rotation)]

\* `sides` and `n` are numbers in 1/Unit (they may be fractional or below 3)
NewPolygon(cx, cy, radius, sides, rotation) ==
  updateVertices([cx |-> cx, cy |-> cy, radius |-> radius,
                  sides |-> Max(3, Floor(sides)), rotation |-> rotation,
                  vertices |-> <<>>])

\* setSides without the recomputation of the vertices
setSidesStale(p, n) == [p EXCEPT !.sides = Max(3, Floor(n))]

setSides(p, n) == updateVertices([p EXCEPT !.sides = Max(3, Floor(n))])

setRadius(p, r) == updateVertices([p EXCEPT !.radius = r])

setCenter(p, x, y) == updateVertices([p EXCEPT !.cx = x, !.cy = y])

\* t = c1/c2 is kept as the exact fraction <<numerator, denominator>>;
\* c2 = 0 (a = b) makes c1 = 0 too, and 0/0 is NaN: neither t<0 nor t>1 holds
\* of it, and a + v*NaN is NaN.
closestPointOnSegment(px, py, ax, ay, bx, by) ==
  LET vx == bx - ax
      vy == by - ay
      wx == px - ax
      wy == py - ay
      c1 == vx * wx + vy * wy
      c2 == vx * vx + vy * vy
      t  == IF c1 < 0 THEN <<0, 1>>
            ELSE IF c1 > c2 THEN <<1, 1>>
            ELSE <<c1, c2>>
  IN IF c2 = 0
       THEN [nan |-> TRUE, x |-> 0, y |-> 0]
       ELSE [nan |-> FALSE,
             x |-> ax + RoundDiv(vx * t[1], t[2]),
             y |-> ay + RoundDiv(vy * t[1], t[2])]

\* the loop of collideCircle over edges i..n: `best` is None for the initial
\* {dist: Infinity}; a NaN distance is never < best.dist
RECURSIVE NearestEdge(_, _, _, _, _)
NearestEdge(p, cx, cy, i, best) ==
  LET n == Len(p.vertices) IN
  IF i > n THEN best
  ELSE LET a    == p.vertices[i]
           b    == p.vertices[(i % n) + 1]
           cp   == closestPointOnSegment(cx, cy, a.x, a.y, b.x, b.y)
           dx   == cx - cp.x
           dy   == cy - cp.y
           dist == Sqrt(dx * dx + dy * dy)
           nb   == IF ~cp.nan /\ (best = None \/ dist < Get(best).dist)
                     THEN Some([dist |-> dist, cp |-> cp, i |-> i - 1, a |-> a, b |-> b])
                     ELSE best
       IN NearestEdge(p, cx, cy, i + 1, nb)

\* the tolerance 0.0001 px of the hit test is below the model's resolution
Eps == 0

\* the hit test against the diameter instead of the radius
HitTestDiameter(dist, r) == dist <= 2 * r + Eps

HitTest(dist, r) == dist <= r + Eps

\* the unit normal of edge a->b, (-ey, ex)/Math.hypot(-ey, ex), times Trig;
\* the length is taken at ten times the length resolution, and || 1 replaces
\* a zero length
EdgeNormal(ex, ey, h) ==
  [x |-> RoundDiv(-ey * Trig * 10, IF h = 0 THEN 10 ELSE h),
   y |-> RoundDiv(ex * Trig * 10, IF h = 0 THEN 10 ELSE h)]

\* the normal, flipped when (cp - center) . normal < 0
Outward(p, cp, n) ==
  IF (cp.x - p.cx) * n.x + (cp.y - p.cy) * n.y < 0
    THEN [x |-> -n.x, y |-> -n.y]
    ELSE n

\* the `if(best.dist <= r + 0.0001)` block of collideCircle
HitResult(p, r, bst) ==
  [hit |-> TRUE, edgeIndex |-> bst.i, pt |-> bst.cp,
   normal |-> Outward(p, bst.cp,
                EdgeNormal(bst.b.x - bst.a.x, bst.b.y - bst.a.y,
                  Sqrt(((bst.b.x - bst.a.x) * (bst.b.x - bst.a.x)
                        + (bst.b.y - bst.a.y) * (bst.b.y - bst.a.y)) * 100))),
   penetration |-> r - bst.dist]

CollisionResult(p, r, best) ==
  IF best # None /\ HitTest(Get(best).dist, r)
    THEN HitResult(p, r, Get(best))
    ELSE [hit |-> FALSE]

collideCircle(p, cx, cy, r) ==
  CollisionResult(p, r, NearestEdge(p, cx, cy, 1, None))

(***************************************************************************)
(* ball.js: class BallSim                                                  *)
(***************************************************************************)
\* two draws of (Math.random() - 0.5), in tenths: the code draws each from
\* [-0.5, 0.5)
RandomPairs == {<<-5, 4>>, <<3, -2>>}

\* `rnd` holds the constructor's two Math.random() draws.  The app always
\* passes radius, gravity, nestedDepth and maxNestedDepth; friction keeps
\* its default 0.995 (see PowFriction).
NewBallSim(x, y, vx, vy, options, rnd) ==
  [x |-> x, y |-> y, vx |-> vx, vy |-> vy,
   radius |-> options.radius,
   gravity |-> options.gravity,
   nestedDepth |-> options.nestedDepth,
   maxNestedDepth |-> options.maxNestedDepth,
   inner |->
     IF options.nestedDepth < options.maxNestedDepth
       THEN Some([cx |-> 0, cy |-> 0,
                  radius |-> RoundDiv(options.radius * 42, 100),
                  polygonSides |-> Max(3, 4 + options.nestedDepth),
                  ball |-> [x |-> -RoundDiv(options.radius * 12, 100),
                            y |-> -RoundDiv(options.radius * 14, 100),
                            vx |-> rnd[1] * 40,
                            vy |-> rnd[2] * 40,
                            radius |-> Max(6 * Unit, RoundDiv(options.radius * 22, 100)),
                            gravity |-> RoundDiv(options.gravity * 11, 10)],
                  extra |-> None])
       ELSE None]

applyGravity(b, dt) == [b EXCEPT !.vy = b.vy + RoundDiv(b.gravity * dt, Milli)]

\* Math.pow(0.995, dt*60) times Trig, for the time steps of DtSet
PowFriction(dt) ==
  CASE dt = 0  -> 10000
    [] dt = 16 -> 9952
    [] dt = 33 -> 9901

integrate(b, dt) ==
  [b EXCEPT !.x = b.x + RoundDiv(b.vx * dt, Milli),
            !.y = b.y + RoundDiv(b.vy * dt, Milli),
            !.vx = RoundDiv(b.vx * PowFriction(dt), Trig),
            !.vy = RoundDiv(b.vy * PowFriction(dt), Trig)]

\* the reflection without its factor 2: v - (v.n)*n
ReflectHalf(vx, vy, nx, ny) ==
  LET vdotn == RoundDiv(vx * nx + vy * ny, Trig)
  IN [vx |-> vx - RoundDiv(vdotn * nx, Trig),
      vy |-> vy - RoundDiv(vdotn * ny, Trig)]

\* v - 2*(v.n)*n, with n a unit normal scaled by Trig
Reflect(vx, vy, nx, ny) ==
  LET vdotn == RoundDiv(vx * nx + vy * ny, Trig)
  IN [vx |-> vx - RoundDiv(2 * vdotn * nx, Trig),
      vy |-> vy - RoundDiv(2 * vdotn * ny, Trig)]

\* position + normal * (penetration + margin)
PushOut(x, y, col, margin) ==
  [x |-> x + RoundDiv(col.normal.x * (col.penetration + margin), Trig),
   y |-> y + RoundDiv(col.normal.y * (col.penetration + margin), Trig)]

\* v *= 0.98
Damp(v) == RoundDiv(v * 98, 100)

\* the body of handleCollisionWithPolygon once `col` is known: the body after
\* the call, the returned boolean, and the locals `col` and the velocity
\* after the reflection, before the damping
ResolveCollision(b, col, rv) ==
  IF col.hit
    THEN [ball |-> [b EXCEPT !.vx = Damp(rv.vx), !.vy = Damp(rv.vy),
                             !.x = PushOut(b.x, b.y, col, Unit \div 2).x,
                             !.y = PushOut(b.x, b.y, col, Unit \div 2).y],
          hit |-> TRUE, col |-> col, reflected |-> rv]
    ELSE [ball |-> b, hit |-> FALSE, col |-> col,
          reflected |-> [vx |-> b.vx, vy |-> b.vy]]

ReflectOn(vx, vy, col) ==
  IF col.hit THEN Reflect(vx, vy, col.normal.x, col.normal.y)
             ELSE [vx |-> vx, vy |-> vy]

ResolveWith(b, col) == ResolveCollision(b, col, ReflectOn(b.vx, b.vy, col))

handleCollisionWithPolygon(b, polygon) ==
  ResolveWith(b, collideCircle(polygon, b.x, b.y, b.radius))

\* the inner ball after the integration and drag lines of updateInner
InnerIntegrate(ib, dt, vy1) ==
  [ib EXCEPT !.x = ib.x + RoundDiv(ib.vx * dt, Milli),
             !.y = ib.y + RoundDiv(vy1 * dt, Milli),
             !.vx = RoundDiv(ib.vx * 999, 1000),
             !.vy = RoundDiv(vy1 * 999, 1000)]

\* the `if(col.hit)` block of updateInner without the growth of the polygon
InnerResolveNoGrow(ip, ib, col, rv) ==
  IF col.hit
    THEN [inner |-> [ip EXCEPT !.ball = [ib EXCEPT
                        !.x = PushOut(ib.x, ib.y, col, Unit \div 2).x,
                        !.y = PushOut(ib.x, ib.y, col, Unit \div 2).y,
                        !.vx = Damp(rv.vx), !.vy = Damp(rv.vy)]],
          hit |-> TRUE]
    ELSE [inner |-> [ip EXCEPT !.ball = ib], hit |-> FALSE]

\* the `if(col.hit)` block of updateInner
InnerResolve(ip, ib, col, rv) ==
  IF col.hit
    THEN [inner |-> [ip EXCEPT !.ball = [ib EXCEPT
                        !.x = PushOut(ib.x, ib.y, col, Unit \div 2).x,
                        !.y = PushOut(ib.x, ib.y, col, Unit \div 2).y,
                        !.vx = Damp(rv.vx), !.vy = Damp(rv.vy)],
                      !.polygonSides = Min(20, ip.polygonSides + 1)],
          hit |-> TRUE]
    ELSE [inner |-> [ip EXCEPT !.ball = ib], hit |-> FALSE]

InnerCollide(ip, ib, col) == InnerResolve(ip, ib, col, ReflectOn(ib.vx, ib.vy, col))

InnerStep(ip, ib) ==
  InnerCollide(ip, ib,
    collideCircle(NewPolygon(ip.cx, ip.cy, ip.radius, ip.polygonSides * Unit, 1),
                  ib.x, ib.y, ib.radius))

InnerResult(b, s) == [ball |-> [b EXCEPT !.inner = Some(s.inner)], hit |-> s.hit]

\* returns the body after the call and the returned boolean
updateInner(b, dt) ==
  IF b.inner = None THEN [ball |-> b, hit |-> FALSE]
  ELSE InnerResult(b,
         InnerStep(Get(b.inner),
           InnerIntegrate(Get(b.inner).ball, dt,
             Get(b.inner).ball.vy + RoundDiv(RoundDiv(b.gravity * 5, 10) * dt, Milli))))

(***************************************************************************)
(* app.js                                                                  *)
(***************************************************************************)
\* canvas.clientWidth and canvas.clientHeight, of the page (108 px each)
CanvasW == 1080
CanvasH == 1080

initialSides == 6

\* the largest value of the depth slider
MaxDepth == 2
\* loop() calls per constructed body, with and without the depth slider
MaxTicks == 3
MaxFrames == 6
\* pointerdown events per constructed body
MaxClicks == 1

\* (ts - lastTime), capped at 33 ms, of a frame after the first
DtSet == {16, 33}
\* where the pointer goes down, in canvas coordinates
ClickPoints == {<<0, 0>>}

NoObs(op) ==
  [op |-> op, collided |-> FALSE, innerHit |-> FALSE, tier2 |-> FALSE,
   extraMade |-> FALSE, extraHit |-> FALSE]

clamp(v, a, b) == Max(a, Min(b, v))

\* init(): the world polygon and the ball it builds
initWorldPolygon ==
  LET polyRadius == RoundDiv(Min(CanvasW, CanvasH) * 38, 100)
  IN NewPolygon(RoundDiv(CanvasW, 2), RoundDiv(CanvasH, 2), polyRadius,
                initialSides * Unit, -1)

initBall(depth, rnd) ==
  LET polyRadius == RoundDiv(Min(CanvasW, CanvasH) * 38, 100)
      bRadius    == Max(24 * Unit, RoundDiv(polyRadius * 12, 100))
  IN NewBallSim(RoundDiv(CanvasW, 2),
                RoundDiv(CanvasH, 2) - RoundDiv(polyRadius * 35, 100),
                120 * Unit, 30 * Unit,
                [radius |-> bRadius, gravity |-> 900 * Unit,
                 nestedDepth |-> 0, maxNestedDepth |-> depth],
                rnd)

\* a depth slider handler that rebuilds the nested tree as the constructor
\* would (at rest, as the handler has no random draws)
depthInputRebuild(b, d) ==
  [b EXCEPT !.maxNestedDepth = d, !.nestedDepth = 0,
            !.inner = IF d > 0
                        THEN Some(
                          [cx |-> 0, cy |-> 0,
                           radius |-> RoundDiv(b.radius * 42, 100),
                           polygonSides |-> Max(3, 4),
                           ball |-> [x |-> -RoundDiv(b.radius * 12, 100),
                                     y |-> -RoundDiv(b.radius * 14, 100),
                                     vx |-> 0, vy |-> 0,
                                     radius |-> Max(6 * Unit, RoundDiv(b.radius * 22, 100)),
                                     gravity |-> RoundDiv(b.gravity * 11, 10)],
                           extra |-> None])
                        ELSE None]

\* the depth slider's input handler, applied to the ball
depthInput(b, d) ==
  LET b1 == [b EXCEPT !.maxNestedDepth = d, !.nestedDepth = 0]
  IN IF d > 0 /\ b1.inner = None
       THEN [b1 EXCEPT !.inner = Some(
               [cx |-> 0, cy |-> 0,
                radius |-> RoundDiv(b.radius * 42, 100),
                polygonSides |-> Max(3, 4),
                ball |-> [x |-> -RoundDiv(b.radius * 12, 100),
                          y |-> -RoundDiv(b.radius * 14, 100),
                          vx |-> 0, vy |-> 0,
                          radius |-> Max(6 * Unit, RoundDiv(b.radius * 22, 100)),
                          gravity |-> RoundDiv(b.gravity * 11, 10)],
                extra |-> None])]
       ELSE b1

\* whether this call of handleRecursiveUpdates takes the `if(!ip.extra)` branch
MakesExtra(parentBall) ==
  /\ parentBall.inner # None
  /\ parentBall.nestedDepth + 1 < parentBall.maxNestedDepth
  /\ Get(parentBall.inner).extra = None

\* the tier-2 state built in the `if(!ip.extra)` branch; `rnd` holds its two
\* Math.random() draws
NewExtra(ip, depth, rnd) ==
  [polygonSides |-> Max(3, 3 + depth + 1),
   ball |-> [x |-> RoundDiv(ip.ball.x * 35, 100),
             y |-> RoundDiv(ip.ball.y * 35, 100),
             vx |-> rnd[1] * 30,
             vy |-> rnd[2] * 30,
             radius |-> Max(2 * Unit, RoundDiv(ip.ball.radius * 35, 100))]]

\* the tier-2 ball after the `integrate extra ball` lines
ExtraIntegrate(eb, dt, vy1) ==
  [eb EXCEPT !.vy = vy1,
             !.x = eb.x + RoundDiv(eb.vx * dt, Milli),
             !.y = eb.y + RoundDiv(vy1 * dt, Milli)]

\* the `if(col.hit)` block of the tier-2 step
ExtraResolve(ex, eb, col, rv) ==
  IF col.hit
    THEN [extra |-> [ex EXCEPT !.ball = [eb EXCEPT
                        !.vx = Damp(rv.vx), !.vy = Damp(rv.vy),
                        !.x = PushOut(eb.x, eb.y, col, Unit \div 5).x,
                        !.y = PushOut(eb.x, eb.y, col, Unit \div 5).y],
                      !.polygonSides = Min(30, ex.polygonSides + 1)],
          hit |-> TRUE]
    ELSE [extra |-> [ex EXCEPT !.ball = eb], hit |-> FALSE]

ExtraCollide(ex, eb, col) == ExtraResolve(ex, eb, col, ReflectOn(eb.vx, eb.vy, col))

ExtraStep(ip, ex, eb) ==
  ExtraCollide(ex, eb,
    collideCircle(NewPolygon(0, 0, RoundDiv(ip.ball.radius * 6, 10),
                             ex.polygonSides * Unit, 1),
                  eb.x, eb.y, eb.radius))

\* the tier-2 step: returns the tier-2 state after it and col.hit
updateExtra(parentBall, ip, ex, dt) ==
  ExtraStep(ip, ex,
    ExtraIntegrate(ex.ball, dt,
      ex.ball.vy + RoundDiv(RoundDiv(parentBall.gravity * 18, 100) * dt, Milli)))

Tier2Result(pb, ip, innerHit, made, s) ==
  [ball |-> [pb EXCEPT !.inner = Some([ip EXCEPT !.extra = Some(s.extra)])],
   innerHit |-> innerHit, tier2 |-> TRUE, extraMade |-> made, extraHit |-> s.hit]

\* the `if(parentBall.nestedDepth + 1 < parentBall.maxNestedDepth)` block
Tier2(pb, ip, innerHit, dt, depth, rnd) ==
  Tier2Result(pb, ip, innerHit, ip.extra = None,
    updateExtra(pb, ip,
      IF ip.extra = None THEN NewExtra(ip, depth, rnd) ELSE Get(ip.extra), dt))

\* the tier-2 gate off by one: nestedDepth < maxNestedDepth
AfterInnerOffByOne(u, dt, depth, rnd) ==
  IF u.ball.nestedDepth < u.ball.maxNestedDepth
    THEN Tier2(u.ball, Get(u.ball.inner), u.hit, dt, depth, rnd)
    ELSE [ball |-> u.ball, innerHit |-> u.hit, tier2 |-> FALSE,
          extraMade |-> FALSE, extraHit |-> FALSE]

AfterInner(u, dt, depth, rnd) ==
  IF u.ball.nestedDepth + 1 < u.ball.maxNestedDepth
    THEN Tier2(u.ball, Get(u.ball.inner), u.hit, dt, depth, rnd)
    ELSE [ball |-> u.ball, innerHit |-> u.hit, tier2 |-> FALSE,
          extraMade |-> FALSE, extraHit |-> FALSE]

\* returns the parent body after the call and what the call did
handleRecursiveUpdates(parentBall, dt, depth, rnd) ==
  IF parentBall.inner = None
    THEN [ball |-> parentBall, innerHit |-> FALSE, tier2 |-> FALSE,
          extraMade |-> FALSE, extraHit |-> FALSE]
    ELSE AfterInner(updateInner(parentBall, dt), dt, depth, rnd)

UpdateResult(wp, hit, r) ==
  [worldPolygon |-> wp, ball |-> r.ball,
   obs |-> [op |-> "tick", collided |-> hit, innerHit |-> r.innerHit,
            tier2 |-> r.tier2, extraMade |-> r.extraMade, extraHit |-> r.extraHit]]

\* update(dt) from the `if(collided)` block on, with setSides(sides)
\* instead of setSides(sides + 1)
AfterCollisionNoGrow(wp, h, dt, rnd) ==
  UpdateResult(
    IF h.hit THEN updateVertices(setSides(wp, wp.sides * Unit)) ELSE wp,
    h.hit,
    handleRecursiveUpdates(
      [h.ball EXCEPT !.vx = IF h.hit THEN Damp(h.ball.vx) ELSE h.ball.vx,
                     !.vy = IF h.hit THEN Damp(h.ball.vy) ELSE h.ball.vy,
                     !.x = clamp(h.ball.x, 0, CanvasW),
                     !.y = clamp(h.ball.y, 0, CanvasH)],
      dt, 0, rnd))

\* update(dt) from the `if(collided)` block on
AfterCollision(wp, h, dt, rnd) ==
  UpdateResult(
    IF h.hit THEN updateVertices(setSides(wp, (wp.sides + 1) * Unit)) ELSE wp,
    h.hit,
    handleRecursiveUpdates(
      [h.ball EXCEPT !.vx = IF h.hit THEN Damp(h.ball.vx) ELSE h.ball.vx,
                     !.vy = IF h.hit THEN Damp(h.ball.vy) ELSE h.ball.vy,
                     !.x = clamp(h.ball.x, 0, CanvasW),
                     !.y = clamp(h.ball.y, 0, CanvasH)],
      dt, 0, rnd))

\* update(dt): returns the world polygon, the ball and what the call did
update(wp, b, dt, rnd) ==
  AfterCollision(wp, handleCollisionWithPolygon(integrate(applyGravity(b, dt), dt), wp),
                 dt, rnd)

(***************************************************************************)
(* The application as a state machine                                      *)
(***************************************************************************)
\* the page has loaded: init() has run with the slider's initial value
Init ==
  /\ maxNestedDepth \in 0..MaxDepth
  /\ worldPolygon = initWorldPolygon
  /\ \E rnd \in RandomPairs : ball = initBall(maxNestedDepth, rnd)
  /\ lastTime = "null"
  /\ ticks = 0
  /\ clicks = 0
  /\ obs = NoObs("init")
  /\ call = None

\* the state after update(dt)
Updated(u) ==
  /\ worldPolygon' = u.worldPolygon
  /\ ball' = u.ball
  /\ obs' = u.obs

\* loop(ts): one animation frame (draw() changes no state), while the body
\* has seen fewer than `limit` frames
Frame(limit) ==
  /\ ticks < limit
  /\ \E dt \in (IF lastTime = "null" THEN {0} ELSE DtSet) :
       \E rnd \in (IF MakesExtra(ball) THEN RandomPairs ELSE {<<0, 0>>}) :
         Updated(update(worldPolygon, ball, dt, rnd))
  /\ lastTime' = "set"
  /\ ticks' = ticks + 1
  /\ UNCHANGED <<maxNestedDepth, clicks, call>>

Loop == Frame(MaxTicks)

\* the depth slider's input event
DepthInput ==
  /\ \E d \in 0..MaxDepth :
       /\ maxNestedDepth' = d
       /\ ball' = depthInput(ball, d)
  /\ obs' = NoObs("depth")
  /\ UNCHANGED <<worldPolygon, lastTime, ticks, clicks, call>>

\* the reset button's click event: init()
Reset ==
  /\ worldPolygon' = initWorldPolygon
  /\ \E rnd \in RandomPairs : ball' = initBall(maxNestedDepth, rnd)
  /\ lastTime' = "null"
  /\ ticks' = 0
  /\ clicks' = 0
  /\ obs' = NoObs("reset")
  /\ UNCHANGED <<maxNestedDepth, call>>

\* the canvas's pointerdown event at canvas point p
PointerDown ==
  /\ clicks < MaxClicks
  /\ \E p \in ClickPoints :
       ball' = [ball EXCEPT !.vx = ball.vx + RoundDiv((p[1] - ball.x) * 8, 10),
                            !.vy = ball.vy + RoundDiv((p[2] - ball.y) * 8, 10)]
  /\ clicks' = clicks + 1
  /\ obs' = NoObs("pointer")
  /\ UNCHANGED <<worldPolygon, maxNestedDepth, lastTime, ticks, call>>

Next == Loop \/ DepthInput \/ Reset \/ PointerDown

Spec == Init /\ [][Next]_vars

\* the same without the depth slider: a body lives with the maximum depth it
\* was constructed with, for up to MaxFrames frames
LoopLong == Frame(MaxFrames)

NextTicks == LoopLong \/ Reset \/ PointerDown

SpecTicks == Init /\ [][NextTicks]_vars

(***************************************************************************)
(* A Polygon under every sequence of its setters                           *)
(***************************************************************************)
\* side counts passed to the constructor and to setSides, in 1/Unit:
\* -1.5, 0, 2.9, 3, 3.5, 6 and 7.9
SideArgs == {-15, 0, 29, 30, 35, 60, 79}
RadiusArgs == {0, 100, 250}
CenterArgs == {<<0, 0>>, <<50, -30>>}
RotationArgs == {-1, 0, 1}

\* the variables of the application, unused by the harnesses below
AppIdle ==
  /\ ball = None
  /\ maxNestedDepth = 0
  /\ lastTime = "null"
  /\ ticks = 0
  /\ clicks = 0

InitPoly ==
  /\ \E c \in CenterArgs, r \in RadiusArgs, n \in SideArgs, rot \in RotationArgs :
       /\ worldPolygon = NewPolygon(c[1], c[2], r, n, rot)
       /\ obs = [op |-> "new", arg |-> n]
  /\ AppIdle
  /\ call = None

PolySetSides ==
  /\ \E n \in SideArgs :
       /\ worldPolygon' = setSides(worldPolygon, n)
       /\ obs' = [op |-> "setSides", arg |-> n]
  /\ UNCHANGED <<ball, maxNestedDepth, lastTime, ticks, clicks, call>>

PolySetRadius ==
  /\ \E r \in RadiusArgs :
       /\ worldPolygon' = setRadius(worldPolygon, r)
       /\ obs' = [op |-> "setRadius", arg |-> r]
  /\ UNCHANGED <<ball, maxNestedDepth, lastTime, ticks, clicks, call>>

PolySetCenter ==
  /\ \E c \in CenterArgs :
       /\ worldPolygon' = setCenter(worldPolygon, c[1], c[2])
       /\ obs' = [op |-> "setCenter", arg |-> c]
  /\ UNCHANGED <<ball, maxNestedDepth, lastTime, ticks, clicks, call>>

NextPoly == PolySetSides \/ PolySetRadius \/ PolySetCenter

SpecPoly == InitPoly /\ [][NextPoly]_vars

(***************************************************************************)
(* Polygon.closestPointOnSegment on every point and segment of a grid      *)
(***************************************************************************)
Coords == {-10, 0, 10}

InitCPS ==
  /\ \E px \in Coords, py \in Coords, ax \in Coords, ay \in Coords,
        bx \in Coords, by \in Coords :
       call = [fn |-> "closestPointOnSegment",
               p |-> [x |-> px, y |-> py],
               a |-> [x |-> ax, y |-> ay],
               b |-> [x |-> bx, y |-> by],
               done |-> FALSE, result |-> None]
  /\ worldPolygon = None
  /\ obs = NoObs("none")
  /\ AppIdle

CallCPS ==
  /\ ~call.done
  /\ call' = [call EXCEPT !.done = TRUE,
                !.result = Some(closestPointOnSegment(call.p.x, call.p.y,
                                  call.a.x, call.a.y, call.b.x, call.b.y))]
  /\ UNCHANGED <<worldPolygon, ball, maxNestedDepth, lastTime, ticks, clicks, obs>>

SpecCPS == InitCPS /\ [][CallCPS]_vars

(***************************************************************************)
(* BallSim.handleCollisionWithPolygon (and through it Polygon.collideCircle)*)
(* on a grid of bodies and regular polygons centred at the origin          *)
(***************************************************************************)
HandleSides == {3, 4, 5, 6, 8}
HandlePositions == {-240, -120, 0, 120, 240}
HandleRadii == {60, 200}
HandleVelocities == {<<300, -200>>, <<0, 500>>, <<-1000, 1000>>}

InitHandle ==
  /\ \E n \in HandleSides, rot \in RotationArgs, x \in HandlePositions,
        y \in HandlePositions, r \in HandleRadii, v \in HandleVelocities :
       call = [fn |-> "handleCollisionWithPolygon",
               polygon |-> NewPolygon(0, 0, 300, n * Unit, rot),
               ball |-> [x |-> x, y |-> y, vx |-> v[1], vy |-> v[2], radius |-> r],
               done |-> FALSE, result |-> None]
  /\ worldPolygon = None
  /\ obs = NoObs("none")
  /\ AppIdle

CallHandle ==
  /\ ~call.done
  /\ call' = [call EXCEPT !.done = TRUE,
                !.result = Some(handleCollisionWithPolygon(call.ball, call.polygon))]
  /\ UNCHANGED <<worldPolygon, ball, maxNestedDepth, lastTime, ticks, clicks, obs>>

SpecHandle == InitHandle /\ [][CallHandle]_vars

(***************************************************************************)
(* Properties                                                              *)
(***************************************************************************)
HasInner(b) == b.inner # None
InnerSides(b) == Get(b.inner).polygonSides
HasExtra(b) == HasInner(b) /\ Get(b.inner).extra # None
ExtraSides(b) == Get(Get(b.inner).extra).polygonSides

\* a nested tree as the constructor leaves it
FreshTree(b) ==
  HasInner(b) => InnerSides(b) = 4 + b.nestedDepth /\ ~HasExtra(b)

\* C1: in every reachable state the body has a tier-1 level (inner is
\* non-null) if and only if nestedDepth < maxNestedDepth; so after the
\* maximum depth is set to 0 there is no tier-1 level.
C1_Tier1IffBelowMaxDepth ==
  HasInner(ball) <=> ball.nestedDepth < ball.maxNestedDepth

\* (pt - a) x (b - a) for edge i (from 1) of polygon p
Cross(p, i, x, y) ==
  LET a == p.vertices[i]
      b == p.vertices[(i % Len(p.vertices)) + 1]
  IN (b.x - a.x) * (y - a.y) - (b.y - a.y) * (x - a.x)

\* the point (x, y) lies strictly inside the convex polygon p
Inside(p, x, y) ==
  \/ \A i \in 1..Len(p.vertices) : Cross(p, i, x, y) > 0
  \/ \A i \in 1..Len(p.vertices) : Cross(p, i, x, y) < 0

\* the distance from (x, y) to edge `edgeIndex` (from 0) of polygon p
DistToEdge(p, edgeIndex, x, y) ==
  LET a  == p.vertices[edgeIndex + 1]
      b  == p.vertices[((edgeIndex + 1) % Len(p.vertices)) + 1]
      cp == closestPointOnSegment(x, y, a.x, a.y, b.x, b.y)
  IN Sqrt((x - cp.x) * (x - cp.x) + (y - cp.y) * (y - cp.y))

\* C2: when handleCollisionWithPolygon reports a hit for a body whose centre
\* lies inside the polygon, the body's distance to the edge it hit is at
\* least its radius right after the call, and the call has not moved the
\* body closer to that edge.
C2_PushOutClearsOverlap ==
  (call.done /\ Get(call.result).hit
     /\ Inside(call.polygon, call.ball.x, call.ball.y))
  => LET res  == Get(call.result)
         edge == res.col.edgeIndex
         after == DistToEdge(call.polygon, edge, res.ball.x, res.ball.y)
     IN /\ after >= call.ball.radius
        /\ after >= DistToEdge(call.polygon, edge, call.ball.x, call.ball.y)

C4_TierActivation ==
  /\ [](/\ ball.nestedDepth = 0
        /\ ball.maxNestedDepth = maxNestedDepth
        /\ ball.maxNestedDepth = 0 => ~HasInner(ball)
        /\ ball.maxNestedDepth = 1 => HasInner(ball) /\ ~HasExtra(ball)
        /\ ball.maxNestedDepth >= 2 =>
             HasInner(ball) /\ (HasExtra(ball) <=> ticks >= 1))
  /\ [][obs'.op = "tick" =>
          /\ obs'.extraMade <=> (~HasExtra(ball) /\ HasExtra(ball'))
          /\ HasExtra(ball) => HasExtra(ball') /\ ~obs'.extraMade]_vars

\* a body of maximum depth 2 whose tier-2 state a later tick has updated
C4_Witness ==
  /\ ball.maxNestedDepth = 2
  /\ ticks >= 2
  /\ obs.op = "tick"
  /\ HasExtra(ball)
  /\ ~obs.extraMade

\* C5: a tick changes the world polygon's side count by exactly 1 when
\* handleCollisionWithPolygon reported true, whatever the count was, and
\* not at all when it reported false; nothing but a reset lowers it.
C5_WorldSidesGrowth ==
  [][/\ obs'.op = "tick" =>
          worldPolygon'.sides = worldPolygon.sides + (IF obs'.collided THEN 1 ELSE 0)
     /\ obs'.op # "reset" => worldPolygon'.sides >= worldPolygon.sides]_vars

\* a tick has grown the world polygon a second time
C5_Witness ==
  /\ obs.op = "tick"
  /\ obs.collided
  /\ worldPolygon.sides >= initialSides + 2

\* C6: after construction and after every setSides, setRadius and setCenter
\* (side counts below 3 and fractional ones included), sides is an integer
\* >= 3, there are as many vertices as sides, and the vertices are those of
\* the current centre, radius, side count and rotation.
C6_PolygonConsistent ==
  /\ worldPolygon.sides \in Nat
  /\ worldPolygon.sides >= 3
  /\ Len(worldPolygon.vertices) = worldPolygon.sides
  /\ worldPolygon.vertices =
       VerticesOf(worldPolygon.cx, worldPolygon.cy, worldPolygon.radius,
                  worldPolygon.sides, worldPolygon.rotation)

\* setSides(7.9) has just made a heptagon
C6_Witness ==
  /\ obs.op = "setSides"
  /\ obs.arg = 79
  /\ worldPolygon.sides = 7
  /\ Len(worldPolygon.vertices) = 7

\* C7: closestPointOnSegment on a zero-length segment (a = b) returns the
\* point a, never NaN.
C7_DegenerateSegmentReturnsA ==
  (call.done /\ call.a = call.b)
  => /\ ~Get(call.result).nan
     /\ Get(call.result).x = call.a.x
     /\ Get(call.result).y = call.a.y

\* twice the vector from the centre of p to the midpoint of its first side
Apothem(p) ==
  LET mx == p.vertices[1].x + p.vertices[2].x - 2 * p.cx
      my == p.vertices[1].y + p.vertices[2].y - 2 * p.cy
  IN Sqrt(mx * mx + my * my) \div 2

\* the distance of (x, y) from the centre of p
Offset(p, x, y) == Sqrt((x - p.cx) * (x - p.cx) + (y - p.cy) * (y - p.cy))

\* C8 (as claimed): a circle whose centre is anywhere inside the polygon and
\* whose radius is less than the apothem is no hit.
C8_NoHitBelowApothem ==
  (call.done /\ Inside(call.polygon, call.ball.x, call.ball.y)
     /\ call.ball.radius < Apothem(call.polygon))
  => ~Get(call.result).col.hit

\* C8 (amended): a circle whose radius is less than the apothem minus the
\* distance of its centre from the polygon's centre (by more than the
\* tolerance; here 0.2 px, which covers the model's rounding) is no hit.
C8_NoHitBelowApothemLessOffset ==
  (call.done
     /\ call.ball.radius + Offset(call.polygon, call.ball.x, call.ball.y) + 2
          < Apothem(call.polygon))
  => ~Get(call.result).col.hit

\* an off-centre circle well inside the polygon was found to be no hit
C8_Witness ==
  /\ call.done
  /\ Offset(call.polygon, call.ball.x, call.ball.y) > 0
  /\ call.ball.radius + Offset(call.polygon, call.ball.x, call.ball.y) + 2
       < Apothem(call.polygon)
  /\ ~Get(call.result).col.hit

\* v . n and v . t (t the tangent (-n.y, n.x)), times Trig
DotN(v, n) == v.vx * n.x + v.vy * n.y
DotT(v, n) == v.vy * n.x - v.vx * n.y

\* C9: on a hit the velocity after the reflection and before the damping
\* has the opposite normal component and the same tangential component as
\* the incoming velocity (within 0.2 px/s, the model's rounding), and the
\* velocity returned is that one damped; on no hit the body is unchanged.
C9_ReflectionLaw ==
  call.done =>
    LET res == Get(call.result) IN
    IF res.hit
      THEN /\ Abs(DotN(res.reflected, res.col.normal)
                    + DotN(call.ball, res.col.normal)) <= 2 * Trig
           /\ Abs(DotT(res.reflected, res.col.normal)
                    - DotT(call.ball, res.col.normal)) <= 2 * Trig
           /\ res.ball.vx = Damp(res.reflected.vx)
           /\ res.ball.vy = Damp(res.reflected.vy)
      ELSE res.ball = call.ball

\* a hit whose incoming velocity had a normal component above 10 px/s
C9_Witness ==
  /\ call.done
  /\ Get(call.result).hit
  /\ Abs(DotN(call.ball, Get(call.result).col.normal)) > 100 * Trig

====
